---- MODULE Spec2Model ----
(***************************************************************************)
(* A model of the MoniBot Telegram payment bot (src/index.js,              *)
(* src/crossChainCheck.js): the giveaway claim handler, the direct-send    *)
(* handler with attemptP2POnChain, the cross-chain rerouter and the RPC    *)
(* endpoint cursor.                                                        *)
(*                                                                         *)
(* Node.js runs every handler on one thread: a handler runs without        *)
(* interruption from one `await` to the next, and other handlers may run   *)
(* while it is suspended.  Each action below is one such uninterrupted     *)
(* piece: it starts where an awaited call resolves (or rejects) and ends   *)
(* where the next awaited call is issued, or where the handler returns.    *)
(***************************************************************************)
EXTENDS Integers, Sequences, FiniteSets

(***************************************************************************)
(* Bounds of the model.                                                    *)
(***************************************************************************)
MaxClaimEvents == 2      \* reply messages delivered to one giveaway listener
MaxPeopleBound == 2      \* largest maxPeople a giveaway command is given
MaxAmount == 2           \* largest amount of a command, in amount steps
MaxSendRuns == 2         \* deliveries of /send updates
MaxRecipients == 2       \* most recipients one /send command names

VARIABLES
  session,       \* "none" | "slash" | "ai": which entry point created the giveaway
  maxPeople,     \* the giveaway's maxPeople (index.js:306, :602)
  claimed,       \* the closure variable `claimed` (index.js:314, :608)
  claimedUsers,  \* the closure variable `claimedUsers` (index.js:315, :609)
  closedBy,      \* the exits that have called bot.removeListener('message', handler)
  run,           \* one record per invocation of `handler`
  ledger,        \* rows inserted into monibot_transactions
  rpcEnv,        \* which of BASE_RPC_URL / TEMPO_RPC_URL the environment sets
  rpcIndexes,    \* the module variable `rpcIndexes` (index.js:54)
  rpcUsed,       \* per chain, the index getClients last picked (-1: none yet)
  rpcCall,       \* the last call of rotateRpc or getClients and its argument
  funds,         \* per chain, the sender's token balance and router allowance
  probe,         \* one call of findAlternateChain: its arguments and result
  processed,     \* message ids with a row in platform_commands
  cmdOf,         \* per message, the command parseP2P reads from its text
  srun           \* the runs of the /send handler, one per delivered update

giveVars == <<session, maxPeople, claimed, claimedUsers, closedBy, run, ledger>>
rpcVars == <<rpcEnv, rpcIndexes, rpcUsed, rpcCall>>
altVars == <<funds, probe>>
sendVars == <<processed, cmdOf, srun>>
vars == <<giveVars, rpcVars, altVars, sendVars>>

(***************************************************************************)
(* Chains, amounts and the number conversions.                             *)
(*                                                                         *)
(* A command's amount is a JavaScript number; on-chain balances and        *)
(* allowances are integers of the token's base unit.  An "amount step" is  *)
(* the distance between two neighbouring JavaScript numbers at the size of *)
(* the amounts sent.  With 6 decimals every base unit is a number of its   *)
(* own (10^6 * amount < 2^53), so a step is one unit.  With 18 decimals it *)
(* is not: 10^18 > 2^53, e.g. the numbers next to 5 are 888 wei apart, and *)
(* parseFloat(formatUnits(b, 18)) rounds b to the nearest of them.  The    *)
(* model keeps that many-to-one rounding with a smaller ratio.             *)
(***************************************************************************)
\* Object.keys order of CHAINS (index.js:48-52) and of CHAIN_CHECK_CONFIGS
\* (crossChainCheck.js:12-37).
ChainOrder == <<"base", "bsc", "tempo">>
Chains == {"base", "bsc", "tempo"}

\* `decimals` of a chain (index.js:49-51, crossChainCheck.js:18,26,34).
Decimals(c) == IF c = "bsc" THEN 18 ELSE 6

\* Base units per amount step: 1 where every unit is a JavaScript number,
\* more than 1 on the 18-decimal chain.
UnitsPerStep(c) == IF Decimals(c) = 18 THEN 4 ELSE 1

\* parseUnits(amount.toFixed(decimals), decimals) (index.js:335, 567, 628):
\* toFixed prints the number's exact value, parseUnits reads it back exactly.
ParseUnitsToFixed(amount, c) == amount * UnitsPerStep(c)

\* parseFloat(formatUnits(units, decimals)) (crossChainCheck.js:55-56): the
\* nearest JavaScript number, ties to the even one; the result in steps.
ParseFloatFormatUnits(units, c) ==
  LET u == UnitsPerStep(c)
      q == units \div u
      r == units % u
  IN  IF 2 * r < u THEN q
      ELSE IF 2 * r > u THEN q + 1
      ELSE IF q % 2 = 0 THEN q ELSE q + 1

(***************************************************************************)
(* The endpoint cursor (index.js:48-80).                                   *)
(***************************************************************************)
\* `rpcs` of CHAINS: the environment's URL first when set (`.filter(Boolean)`
\* drops it when unset), then the fixed public endpoints.
Rpcs(c, env) ==
  CASE c = "base"  -> (IF env.base THEN <<"BASE_RPC_URL">> ELSE <<>>)
                        \o <<"base-rpc.publicnode.com", "base.drpc.org", "mainnet.base.org">>
    [] c = "bsc"   -> <<"bsc-dataseed.binance.org", "bsc-rpc.publicnode.com",
                        "bsc-dataseed1.defibit.io">>
    [] c = "tempo" -> (IF env.tempo THEN <<"TEMPO_RPC_URL">> ELSE <<>>)
                        \o <<"rpc.moderato.tempo.xyz">>

Min(a, b) == IF a <= b THEN a ELSE b

\* index.js:64: the 0-based index getClients picks.
RpcIdx(c, idx, env) == Min(idx[c], Len(Rpcs(c, env)) - 1)

\* index.js:76-77: the cursor after rotateRpc(c).
\* (a rotateRpc that wraps around to the first endpoint)
RotatedWrap(c, idx, env) ==
  [idx EXCEPT ![c] = (idx[c] + 1) % Len(Rpcs(c, env))]
\* (a rotateRpc that moves every chain's cursor on)
RotatedAll(c, idx, env) ==
  [d \in DOMAIN idx |-> IF idx[d] < Len(Rpcs(d, env)) - 1 THEN idx[d] + 1 ELSE idx[d]]
Rotated(c, idx, env) ==
  IF idx[c] < Len(Rpcs(c, env)) - 1 THEN [idx EXCEPT ![c] = idx[c] + 1] ELSE idx

\* rotateRpc(chainName) (index.js:73-80); a name CHAINS lacks returns at once.
RotateRpc(name) ==
  /\ rpcIndexes' = IF name \in Chains THEN Rotated(name, rpcIndexes, rpcEnv)
                   ELSE rpcIndexes
  /\ rpcCall' = [op |-> "rotateRpc", chain |-> name]
  /\ UNCHANGED <<rpcEnv, rpcUsed>>
  /\ UNCHANGED <<giveVars, altVars, sendVars>>

\* getClients(chain) (index.js:62-71).
GetClients(c) ==
  /\ rpcUsed' = [rpcUsed EXCEPT ![c] = RpcIdx(c, rpcIndexes, rpcEnv)]
  /\ rpcCall' = [op |-> "getClients", chain |-> c]
  /\ UNCHANGED <<rpcEnv, rpcIndexes>>
  /\ UNCHANGED <<giveVars, altVars, sendVars>>

(***************************************************************************)
(* The cross-chain rerouter (crossChainCheck.js).                          *)
(***************************************************************************)
\* `rpcs` of CHAIN_CHECK_CONFIGS (crossChainCheck.js:15, 23, 31).
CheckRpcs(c) ==
  CASE c = "base"  -> <<"base-rpc.publicnode.com", "mainnet.base.org">>
    [] c = "bsc"   -> <<"bsc-dataseed.binance.org", "bsc-rpc.publicnode.com">>
    [] c = "tempo" -> <<"rpc.moderato.tempo.xyz">>

\* The numbers of leading endpoints of chain c that may be failing.
DownChoices(c) == 0..Len(CheckRpcs(c))

\* (a probe that reports an unreachable chain as funded)
FailOpen(c) == [hasBalance |-> TRUE, hasAllowance |-> TRUE, balance |-> 0,
                allowance |-> 0, chain |-> c]
\* crossChainCheck.js:41 and :71.
FailClosed(c) == [hasBalance |-> FALSE, hasAllowance |-> FALSE, balance |-> 0,
                  allowance |-> 0, chain |-> c]

\* The loop of checkChainFunds (crossChainCheck.js:43-71) from endpoint k on.
\* `down` is the number of leading endpoints whose reads reject.
RECURSIVE TryRpc(_, _, _, _, _)
TryRpc(c, amount, f, down, k) ==
  IF k > Len(CheckRpcs(c)) THEN FailClosed(c)
  ELSE IF k <= down THEN TryRpc(c, amount, f, down, k + 1)
  ELSE LET balanceNum == ParseFloatFormatUnits(f.bal, c)
           allowanceNum == ParseFloatFormatUnits(f.allow, c)
       IN  [hasBalance |-> balanceNum >= amount,
            hasAllowance |-> allowanceNum >= amount,
            balance |-> balanceNum, allowance |-> allowanceNum, chain |-> c]

\* checkChainFunds (crossChainCheck.js:39-72).
CheckChainFunds(c, amount, f, down) ==
  IF c \notin Chains THEN FailClosed(c) ELSE TryRpc(c, amount, f, down, 1)

\* Array.prototype.find over the callback's verdicts: the position of the
\* first TRUE from k on, 0 when find returns undefined.
RECURSIVE FindFrom(_, _)
FindFrom(hits, k) ==
  IF k > Len(hits) THEN 0
  ELSE IF hits[k] THEN k
  ELSE FindFrom(hits, k + 1)

NullAlt == [chain |-> "null", balance |-> 0, needsAllowance |-> FALSE]

IsViable(c) == c.hasBalance /\ c.hasAllowance
IsBalanceOnly(c) == c.hasBalance /\ ~c.hasAllowance

\* crossChainCheck.js:82
Alternates(currentChain) == SelectSeq(ChainOrder, LAMBDA c : c # currentChain)

\* crossChainCheck.js:86-88: the probes' results, in the alternates' order.
AlternateChecks(amount, currentChain, fs, downs) ==
  LET alternates == Alternates(currentChain)
  IN  [i \in 1..Len(alternates) |->
         CheckChainFunds(alternates[i], amount, fs[alternates[i]], downs[alternates[i]])]

\* (a selection that takes the first chain holding the balance, whatever its
\* allowance)
FindAlternateChainFirstFunded(amount, currentChain, fs, downs) ==
  LET checks == AlternateChecks(amount, currentChain, fs, downs)
      funded == FindFrom([i \in DOMAIN checks |-> checks[i].hasBalance], 1)
  IN  IF funded # 0
      THEN [chain |-> checks[funded].chain, balance |-> checks[funded].balance,
            needsAllowance |-> ~checks[funded].hasAllowance]
      ELSE NullAlt

\* findAlternateChain (crossChainCheck.js:81-104).  fs and downs give each
\* chain's funds and failing endpoints at the time of the probes.
FindAlternateChain(amount, currentChain, fs, downs) ==
  LET checks == AlternateChecks(amount, currentChain, fs, downs)
      viable == FindFrom([i \in DOMAIN checks |-> IsViable(checks[i])], 1)
      hasBalanceOnly == FindFrom([i \in DOMAIN checks |-> IsBalanceOnly(checks[i])], 1)
  IN  IF viable # 0
      THEN [chain |-> checks[viable].chain, balance |-> checks[viable].balance,
            needsAllowance |-> FALSE]
      ELSE IF hasBalanceOnly # 0
      THEN [chain |-> checks[hasBalanceOnly].chain,
            balance |-> checks[hasBalanceOnly].balance, needsAllowance |-> TRUE]
      ELSE NullAlt

\* One call of findAlternateChain on the arguments drawn at Init.
CallFindAlternateChain ==
  /\ ~probe.called
  /\ probe' = [probe EXCEPT !.called = TRUE,
                 !.checks = AlternateChecks(probe.amount, probe.exclude,
                                            funds, probe.down),
                 !.result = FindAlternateChain(probe.amount, probe.exclude,
                                               funds, probe.down)]
  /\ UNCHANGED funds
  /\ UNCHANGED <<giveVars, rpcVars, sendVars>>

(***************************************************************************)
(* The giveaway listener (index.js:318-372 and 611-671).                   *)
(***************************************************************************)
Runs == 1..MaxClaimEvents

\* Telegram accounts that write in the group; "owner" started the giveaway.
Claimants == {"owner", "u1", "u2"}

\* What the first @tag of a reply is: no tag at all, the bot's own tag, or a
\* MoniTag.  "ghost" is a tag no profile carries.
ClaimTags == {"", "monibot", "ghost", "owner", "alice", "bob"}

\* getProfileByMonitag (index.js:89-92): the profile id, or "null".
ProfileByMonitag(tag) ==
  CASE tag = "owner" -> "P_owner"
    [] tag = "alice" -> "P_alice"
    [] tag = "bob"   -> "P_bob"
    [] OTHER         -> "null"

\* The profile of the giveaway's sender (index.js:309, :603).
SenderProfile == "P_owner"

\* A run of `handler`.  `from` and `tag` are kept only while the code can still
\* read them or while the run holds an admission or a payment.
IdleRun == [pc |-> "idle", from |-> "", tag |-> "", adm |-> FALSE,
            paid |-> FALSE, reuse |-> FALSE, dedup |-> 0, msg |-> "", out |-> ""]

DroppedRun == [IdleRun EXCEPT !.pc = "done", !.out = "dropped"]

\* `handler` is registered from bot.on (index.js:374, :673) until the first
\* removeListener; removing it again changes nothing.
\* (a listener that only the timer removes)
attachedUntilExpiry == session # "none" /\ "expiry" \notin closedBy
attached == session # "none" /\ closedBy = {}

\* The synchronous filter at the top of `handler` (index.js:319-325, 612-618):
\* TRUE when the reply is dropped before the recipient lookup.
DroppedAtGate(sameChat, fromId, tag, claimedNow, users, maxP) ==
  \/ ~sameChat
  \/ claimedNow >= maxP
  \/ fromId \in users
  \/ tag = ""
  \/ tag = "monibot"

\* index.js:328, :621
DroppedAfterLookup(recipient) ==
  recipient = "null" \/ recipient = SenderProfile

\* index.js:330-331, :623-624
AdmitUsers(users, fromId) == users \cup {fromId}
AdmitCount(c) == c + 1

\* index.js:355-356, 368-369, 648-649, 667-668
RollbackUsers(users, fromId) == users \ {fromId}
\* (a rollback that forgets `claimed--`)
RollbackCountKept(c) == c
RollbackCount(c) == c - 1

\* index.js:363, :662
CapReached(claimedNow, maxP) == claimedNow >= maxP

Finish(h, o) == [run EXCEPT ![h].pc = "done", ![h].out = o, ![h].reuse = FALSE]

\* The catch block (index.js:367-371, 666-670): roll back and return.
Catch(h) ==
  /\ claimedUsers' = RollbackUsers(claimedUsers, run[h].from)
  /\ claimed' = RollbackCount(claimed)
  /\ run' = [run EXCEPT ![h].pc = "done", ![h].adm = FALSE, ![h].reuse = FALSE,
                        ![h].dedup = 0,
                        ![h].out = IF run[h].paid THEN "caughtPaid" ELSE "failed",
                        ![h].tag = IF run[h].paid THEN run[h].tag ELSE ""]

\* bot.removeListener('message', handler)
\* (an exit that leaves the listener on the emitter)
DetachSkipped(who) == closedBy' = closedBy
Detach(who) == closedBy' = closedBy \cup {who}

\* msg.message_id of the message that carries the giveaway command.
GiveawayMsg == "m1"

\* The giveaway command up to `bot.on('message', handler)` and the timer
\* (index.js:304-316 with 374-375; 602-609 with 673-674).
StartGiveaway ==
  /\ session = "none"
  /\ \E entry \in {"slash", "ai"}, n \in 1..MaxPeopleBound :
       \* the natural-language handler returns on a recorded id (401) before
       \* it calls handleGiveawayTg (450); bot.onText(/giveaway/) has no such
       \* test
       /\ entry = "ai" => GiveawayMsg \notin processed
       /\ session' = entry
       /\ maxPeople' = n
  /\ claimed' = 0
  /\ claimedUsers' = {}
  /\ UNCHANGED <<closedBy, run, ledger>>
  /\ UNCHANGED <<rpcVars, altVars, sendVars>>

\* The accounts and tags the h-th reply is drawn from.  "u1" and "u2", and
\* "alice" and "bob", are interchangeable (no line of the handler tells them
\* apart), so a reply comes from "u2" only while an earlier run holds "u1",
\* and names "bob" only while an earlier run holds "alice".
FromChoices(h) ==
  {"owner", "u1"} \cup (IF \E g \in 1..(h - 1) : run[g].from = "u1" THEN {"u2"} ELSE {})
TagChoices(h) ==
  (ClaimTags \ {"bob"}) \cup
    (IF \E g \in 1..(h - 1) : run[g].tag = "alice" THEN {"bob"} ELSE {})

\* History only: run h takes the last slot after another claimant's admission
\* was rolled back.
SlotReused(h) ==
  /\ AdmitCount(claimed) = maxPeople
  /\ \E g \in Runs : run[g].out = "failed" /\ run[g].from # run[h].from

\* A reply reaches the listener: index.js:318-327 (611-620), up to the
\* awaited getProfileByMonitag.
Deliver(h) ==
  /\ session # "none"
  /\ attached
  /\ run[h].pc = "idle"
  /\ \A g \in Runs : g < h => run[g].pc # "idle"
  /\ \E sameChat \in BOOLEAN, fromId \in FromChoices(h), tag \in TagChoices(h) :
       IF DroppedAtGate(sameChat, fromId, tag, claimed, claimedUsers, maxPeople)
       THEN run' = [run EXCEPT ![h] = DroppedRun]
       ELSE run' = [run EXCEPT ![h].pc = "lookup", ![h].from = fromId, ![h].tag = tag]
  /\ UNCHANGED <<session, maxPeople, claimed, claimedUsers, closedBy, ledger>>
  /\ UNCHANGED <<rpcVars, altVars, sendVars>>

\* getProfileByMonitag resolved: index.js:328-340 (621-633), up to the awaited
\* Promise.all of getNonce, balanceOf and allowance.
LookupDone(h) ==
  /\ run[h].pc = "lookup"
  /\ IF DroppedAfterLookup(ProfileByMonitag(run[h].tag))
     THEN /\ run' = [run EXCEPT ![h] = DroppedRun]
          /\ UNCHANGED <<claimed, claimedUsers>>
     ELSE /\ claimedUsers' = AdmitUsers(claimedUsers, run[h].from)
          /\ claimed' = AdmitCount(claimed)
          /\ run' = [run EXCEPT ![h].pc = "preflight", ![h].adm = TRUE,
                                ![h].reuse = SlotReused(h)]
  /\ UNCHANGED <<session, maxPeople, closedBy, ledger>>
  /\ UNCHANGED <<rpcVars, altVars, sendVars>>

\* The last part of the dedup tag `tg_giveaway_${msg.message_id}_${claimed}`
\* (index.js:348, 351; 640, 643), read when the calldata is built.  `dedup` is
\* kept while the transaction it went into awaits its receipt.
DedupSuffix(claimedNow) == claimedNow

\* The three reads resolved or one rejected: index.js:342-351 (635-644).
\* `tagged` says whether the history field `dedup` records the tag that was
\* built; the handler's own state does not depend on it.
PreflightStep(h, tagged) ==
  /\ run[h].pc = "preflight"
  /\ \E res \in {"enough", "short", "error"} :
       CASE res = "enough" ->
              /\ run' = [run EXCEPT ![h].pc = "estimate",
                                    ![h].dedup = IF tagged THEN DedupSuffix(claimed)
                                                 ELSE 0]
              /\ UNCHANGED <<claimed, claimedUsers>>
         [] res = "short" ->
              /\ run' = [run EXCEPT ![h].pc = "notifyEnd"]
              /\ UNCHANGED <<claimed, claimedUsers>>
         [] OTHER -> Catch(h)
  /\ UNCHANGED <<session, maxPeople, closedBy, ledger>>
  /\ UNCHANGED <<rpcVars, altVars, sendVars>>

PreflightDone(h) == PreflightStep(h, FALSE)
PreflightDoneTagged(h) == PreflightStep(h, TRUE)

\* sendMessage('Giveaway ended - insufficient funds') resolved or rejected:
\* index.js:343-345 (636-638).
NotifyEndDone(h) ==
  /\ run[h].pc = "notifyEnd"
  /\ \/ /\ run' = [Finish(h, "ended") EXCEPT ![h].tag = ""]
        /\ Detach("funds")
        /\ UNCHANGED <<claimed, claimedUsers>>
     \/ /\ Catch(h)
        /\ UNCHANGED <<closedBy>>
  /\ UNCHANGED <<session, maxPeople, ledger>>
  /\ UNCHANGED <<rpcVars, altVars, sendVars>>

\* estimateContractGas resolved or rejected: index.js:351-352 (644-645).
EstimateDone(h) ==
  /\ run[h].pc = "estimate"
  /\ \/ /\ run' = [run EXCEPT ![h].pc = "send"]
        /\ UNCHANGED <<claimed, claimedUsers>>
     \/ Catch(h)
  /\ UNCHANGED <<session, maxPeople, closedBy, ledger>>
  /\ UNCHANGED <<rpcVars, altVars, sendVars>>

\* wallet.sendTransaction resolved or rejected: index.js:352-353 (645-646).
SendDone(h) ==
  /\ run[h].pc = "send"
  /\ \/ /\ run' = [run EXCEPT ![h].pc = "confirm"]
        /\ UNCHANGED <<claimed, claimedUsers>>
     \/ Catch(h)
  /\ UNCHANGED <<session, maxPeople, closedBy, ledger>>
  /\ UNCHANGED <<rpcVars, altVars, sendVars>>

\* Where the handler stands after the receipt (index.js:354-361, 647-660):
\* a reverted receipt returns after its message, a successful one is written
\* to monibot_transactions by handleGiveawayTg only.
\* (a handler without the `receipt.status === 'reverted'` return)
AfterReceiptUnchecked(status, entry) == IF entry = "ai" THEN "ledger" ELSE "notifyOk"
\* (a handler that submits again after a reverted receipt)
AfterReceiptResubmit(status, entry) ==
  IF status = "reverted" THEN "send"
  ELSE IF entry = "ai" THEN "ledger" ELSE "notifyOk"
AfterReceipt(status, entry) ==
  IF status = "reverted" THEN "notifyRevert"
  ELSE IF entry = "ai" THEN "ledger" ELSE "notifyOk"

\* waitForTransactionReceipt resolved or rejected: index.js:353-361 (646-660).
ConfirmDone(h) ==
  /\ run[h].pc = "confirm"
  /\ \E res \in {"success", "reverted", "error"} :
       CASE res = "success" ->
              /\ run' = [run EXCEPT ![h].pc = AfterReceipt(res, session),
                                    ![h].paid = TRUE, ![h].dedup = 0]
              /\ UNCHANGED <<claimed, claimedUsers>>
         [] res = "reverted" ->
              /\ claimedUsers' = RollbackUsers(claimedUsers, run[h].from)
              /\ claimed' = RollbackCount(claimed)
              /\ run' = [run EXCEPT ![h].pc = AfterReceipt(res, session), ![h].adm = FALSE,
                                    ![h].reuse = FALSE, ![h].tag = "", ![h].dedup = 0]
         [] OTHER -> Catch(h)
  /\ UNCHANGED <<session, maxPeople, closedBy, ledger>>
  /\ UNCHANGED <<rpcVars, altVars, sendVars>>

\* sendMessage('... was reverted') resolved or rejected: index.js:357-358
\* (650-651).  The call sits inside the try block: a rejection runs the catch
\* block after the rollback of lines 355-356.
NotifyRevertDone(h) ==
  /\ run[h].pc = "notifyRevert"
  /\ \/ /\ run' = Finish(h, "failed")
        /\ UNCHANGED <<claimed, claimedUsers>>
     \/ Catch(h)
  /\ UNCHANGED <<session, maxPeople, closedBy, ledger>>
  /\ UNCHANGED <<rpcVars, altVars, sendVars>>

\* supabase insert into monibot_transactions resolved: index.js:653-660.
\* Only handleGiveawayTg makes it.
LedgerDone(h) ==
  /\ run[h].pc = "ledger"
  /\ ledger' = ledger \cup {[type |-> "giveaway", run |-> h, idx |-> 0, msg |-> "",
                              receiver |-> ProfileByMonitag(run[h].tag)]}
  /\ run' = [run EXCEPT ![h].pc = "notifyOk"]
  /\ UNCHANGED <<session, maxPeople, claimed, claimedUsers, closedBy>>
  /\ UNCHANGED <<rpcVars, altVars, sendVars>>

\* sendMessage('sent to ...') resolved or rejected: index.js:361-364 (660-663).
NotifyOkDone(h) ==
  /\ run[h].pc = "notifyOk"
  /\ \/ /\ run' = IF CapReached(claimed, maxPeople)
                  THEN [run EXCEPT ![h].pc = "notifyComplete"]
                  ELSE Finish(h, "paid")
        /\ UNCHANGED <<claimed, claimedUsers>>
     \/ Catch(h)
  /\ UNCHANGED <<session, maxPeople, closedBy, ledger>>
  /\ UNCHANGED <<rpcVars, altVars, sendVars>>

\* sendMessage('Giveaway complete!') resolved or rejected: index.js:364-365
\* (663-664).
NotifyCompleteDone(h) ==
  /\ run[h].pc = "notifyComplete"
  /\ \/ /\ run' = Finish(h, "paid")
        /\ Detach("cap")
        /\ UNCHANGED <<claimed, claimedUsers>>
     \/ /\ Catch(h)
        /\ UNCHANGED <<closedBy>>
  /\ UNCHANGED <<session, maxPeople, ledger>>
  /\ UNCHANGED <<rpcVars, altVars, sendVars>>

\* No run of the listener is between two awaits.
Quiescent == \A h \in Runs : run[h].pc \in {"idle", "done"}

\* The 600000 ms timer fires: index.js:375 (674).  The callback only keeps
\* later replies from the listener; it reads and writes nothing a delivered
\* run uses, so with every reply delivered it is taken once the runs are done.
Expire ==
  /\ session # "none"
  /\ "expiry" \notin closedBy
  /\ Quiescent \/ \E h \in Runs : run[h].pc = "idle"
  /\ Detach("expiry")
  /\ UNCHANGED <<session, maxPeople, claimed, claimedUsers, run, ledger>>
  /\ UNCHANGED <<rpcVars, altVars, sendVars>>

\* The timer fires while every delivered reply is still between two awaits:
\* the callback does not wait for them (index.js:375, 674).
ExpireInFlight ==
  /\ session # "none"
  /\ "expiry" \notin closedBy
  /\ ~Quiescent
  /\ \A h \in Runs : run[h].pc # "idle"
  /\ Detach("expiry")
  /\ UNCHANGED <<session, maxPeople, claimed, claimedUsers, run, ledger>>
  /\ UNCHANGED <<rpcVars, altVars, sendVars>>

(***************************************************************************)
(* The /send handler (index.js:245-301) and attemptP2POnChain              *)
(* (index.js:564-598).  executeP2PCommand (index.js:471-559) runs the same *)
(* loop for the natural-language entry point.                              *)
(***************************************************************************)
SendRuns == 1..MaxSendRuns
MsgIds == {"m1", "m2"}
SendTags == {"alice", "ghost", "owner"}

NoCmd == [recipients |-> <<>>, chain |-> "", amount |-> 0]
OffRun == [pc |-> "off", msg |-> "", i |-> 0, chain |-> "", retry |-> FALSE,
           first |-> "", results |-> <<>>, out |-> ""]
NewRun(m) == [OffRun EXCEPT !.pc = "new", !.msg = m]

Cmd(r) == cmdOf[srun[r].msg]
Tag(r) == Cmd(r).recipients[srun[r].i]

\* index.js:568-578: the outcome of the two pre-flight comparisons.
\* (a pre-flight that compares the allowance only)
ClassifyAllowanceOnly(balance, allowance, amountUnits) ==
  IF allowance < amountUnits THEN "Low allowance" ELSE "ok"
Classify(balance, allowance, amountUnits) ==
  IF balance < amountUnits THEN "Low balance"
  ELSE IF allowance < amountUnits THEN "Low allowance"
  ELSE "ok"

\* What attemptP2POnChain does once the gas estimate has resolved
\* (index.js:581-597): the result it returns and the rows it inserts.
\* (the body with `const hash = await wallet.sendTransaction(...)` in place
\*  and a receipt whose status is success)
SubmitOutcomeSent(r, tag, chain) ==
  [result |-> [tag |-> tag, ok |-> TRUE, reason |-> "", chain |-> chain],
   rows |-> {[type |-> "p2p", run |-> r, idx |-> srun[r].i, msg |-> srun[r].msg,
              receiver |-> ProfileByMonitag(tag)]}]
\* Line 581 reads `hash`, which no statement declares: the ReferenceError is
\* caught at 595 and becomes the reason; lines 582-593 never run.
SubmitOutcome(r, tag, chain) ==
  [result |-> [tag |-> tag, ok |-> FALSE, reason |-> "hash is not defined",
               chain |-> chain],
   rows |-> {}]

\* results.push(res) and the loop's next step (index.js:259, 290-300): the
\* lookup of the next handle, or the reply after the last one.
\* (a loop that starts the next recipient before this one's outcome is in)
PushUnawaited(r, res) ==
  IF srun[r].i < Len(Cmd(r).recipients)
  THEN [srun EXCEPT ![r].i = @ + 1, ![r].pc = "lookup", ![r].chain = "",
                    ![r].retry = FALSE, ![r].first = ""]
  ELSE [srun EXCEPT ![r].results = Append(@, res), ![r].i = 0,
                    ![r].pc = "reply", ![r].chain = "", ![r].retry = FALSE,
                    ![r].first = ""]
Push(r, res) ==
  IF srun[r].i < Len(Cmd(r).recipients)
  THEN [srun EXCEPT ![r].results = Append(@, res), ![r].i = @ + 1,
                    ![r].pc = "lookup", ![r].chain = "", ![r].retry = FALSE,
                    ![r].first = ""]
  ELSE [srun EXCEPT ![r].results = Append(@, res), ![r].i = 0,
                    ![r].pc = "reply", ![r].chain = "", ![r].retry = FALSE,
                    ![r].first = ""]

End(r, o) == [srun EXCEPT ![r] = [OffRun EXCEPT !.pc = "done", !.msg = srun[r].msg,
                                    !.results = srun[r].results, !.out = o]]

\* An error thrown inside attemptP2POnChain: the catch block returns it as a
\* value (index.js:595-597) and the caller pushes it (287).
\* (an attempt without the try/catch: the rejection ends the handler)
AttemptFailureThrown(r, res) == End(r, "crashed")
AttemptFailure(r, res) == Push(r, res)

\* The update reaches bot.onText(/send|pay/): isProcessed is called (246).
OnSend(r) ==
  /\ srun[r].pc = "new"
  /\ srun' = [srun EXCEPT ![r].pc = "isProcessed"]
  /\ UNCHANGED <<processed, cmdOf>>
  /\ UNCHANGED <<giveVars, rpcVars, altVars>>

\* isProcessed resolved (index.js:94-97, 246-251).
IsProcessedDone(r) ==
  /\ srun[r].pc = "isProcessed"
  /\ srun' = IF srun[r].msg \in processed THEN End(r, "duplicate")
             ELSE [srun EXCEPT ![r].pc = "getSender"]
  /\ UNCHANGED <<processed, cmdOf>>
  /\ UNCHANGED <<giveVars, rpcVars, altVars>>

\* getProfileByTelegramId resolved (index.js:251-252).
GetSenderDone(r) ==
  /\ srun[r].pc = "getSender"
  /\ \E linked \in BOOLEAN :
       srun' = IF linked THEN [srun EXCEPT ![r].pc = "logCmd"]
               ELSE End(r, "notLinked")
  /\ UNCHANGED <<processed, cmdOf>>
  /\ UNCHANGED <<giveVars, rpcVars, altVars>>

\* logCmd(..., 'processing') resolved (index.js:99-114, 254); the loop starts
\* with the lookup of the first handle (258).
LogCmdDone(r) ==
  /\ srun[r].pc = "logCmd"
  /\ processed' = processed \cup {srun[r].msg}
  /\ srun' = [srun EXCEPT ![r].pc = "lookup", ![r].i = 1]
  /\ UNCHANGED cmdOf
  /\ UNCHANGED <<giveVars, rpcVars, altVars>>

\* getProfileByMonitag resolved (index.js:258-262); attemptP2POnChain starts
\* its reads on the command's chain (564-573).  For a chain CHAINS lacks,
\* getClients throws on `c.rpcs` (64) inside the try block.
RecipientLookupDone(r) ==
  /\ srun[r].pc = "lookup"
  /\ LET recipient == ProfileByMonitag(Tag(r))
     IN  srun' =
           IF recipient = "null"
           THEN Push(r, [tag |-> Tag(r), ok |-> FALSE, reason |-> "Not found", chain |-> ""])
           ELSE IF recipient = SenderProfile
           THEN Push(r, [tag |-> Tag(r), ok |-> FALSE, reason |-> "Self-send", chain |-> ""])
           ELSE IF Cmd(r).chain \notin Chains
           THEN AttemptFailure(r, [tag |-> Tag(r), ok |-> FALSE,
                                   reason |-> "no such chain", chain |-> Cmd(r).chain])
           ELSE [srun EXCEPT ![r].pc = "reads", ![r].chain = Cmd(r).chain]
  /\ UNCHANGED <<processed, cmdOf>>
  /\ UNCHANGED <<giveVars, rpcVars, altVars>>

\* The caller's fallback condition (index.js:273, 493): it is applied to the
\* result of the first attempt only; `retryResult` is pushed as it is (278).
\* (a caller that applies the condition to the retry's result as well)
MayRerouteAgain(retry, why) == why \in {"Low balance", "Low allowance"}
MayReroute(retry, why) == ~retry /\ why \in {"Low balance", "Low allowance"}

\* The three reads of attemptP2POnChain settled (index.js:568-578), then the
\* caller's branch on the reason (264-265, 274-276).
ReadsDone(r) ==
  /\ srun[r].pc = "reads"
  /\ \E answered \in BOOLEAN :
       LET c == srun[r].chain
           why == Classify(funds[c].bal, funds[c].allow,
                           ParseUnitsToFixed(Cmd(r).amount, c))
           res == [tag |-> Tag(r), ok |-> FALSE, reason |-> why, chain |-> c]
       IN  srun' =
             IF ~answered
             THEN AttemptFailure(r, [res EXCEPT !.reason = "transport"])
             ELSE IF why = "ok" THEN [srun EXCEPT ![r].pc = "estimate"]
             ELSE IF MayReroute(srun[r].retry, why)
             THEN [srun EXCEPT ![r].pc = "alt", ![r].first = why]
             ELSE Push(r, res)
  /\ UNCHANGED <<processed, cmdOf>>
  /\ UNCHANGED <<giveVars, rpcVars, altVars>>

\* estimateContractGas settled (index.js:580) and the rest of the attempt.
GasEstimateDone(r) ==
  /\ srun[r].pc = "estimate"
  /\ \E answered \in BOOLEAN :
       LET c == srun[r].chain
           o == SubmitOutcome(r, Tag(r), c)
       IN  IF answered
           THEN /\ srun' = IF o.result.ok THEN Push(r, o.result)
                             ELSE AttemptFailure(r, o.result)
                /\ ledger' = ledger \cup o.rows
           ELSE /\ srun' = AttemptFailure(r, [tag |-> Tag(r), ok |-> FALSE,
                                              reason |-> "transport", chain |-> c])
                /\ ledger' = ledger
  /\ UNCHANGED <<processed, cmdOf>>
  /\ UNCHANGED <<session, maxPeople, claimed, claimedUsers, closedBy, run>>
  /\ UNCHANGED <<rpcVars, altVars>>

\* findAlternateChain resolved (index.js:265-287); each chain it probes may
\* have any number of its endpoints failing.
AltDone(r) ==
  /\ srun[r].pc = "alt"
  /\ \E downs \in [Chains -> 0..2] :
       /\ \A c \in Chains : downs[c] \in DownChoices(c)
       /\ downs[srun[r].chain] = 0
       /\ LET alt == FindAlternateChain(Cmd(r).amount, srun[r].chain, funds, downs)
          IN  srun' =
                IF alt.chain # "null" /\ ~alt.needsAllowance
                THEN [srun EXCEPT ![r].pc = "reroute", ![r].chain = alt.chain,
                                  ![r].retry = TRUE]
                ELSE IF alt.chain # "null"
                THEN Push(r, [tag |-> Tag(r), ok |-> FALSE, reason |-> "needs allowance",
                              chain |-> alt.chain])
                ELSE Push(r, [tag |-> Tag(r), ok |-> FALSE, reason |-> srun[r].first,
                              chain |-> srun[r].chain])
  /\ UNCHANGED <<processed, cmdOf>>
  /\ UNCHANGED <<giveVars, rpcVars, altVars>>

\* sendMessage('Rerouting ...') settled (index.js:268-272).  Nothing catches a
\* rejection: the handler ends there.  Otherwise the retry starts its reads.
RerouteDone(r) ==
  /\ srun[r].pc = "reroute"
  /\ \E delivered \in BOOLEAN :
       srun' = IF delivered THEN [srun EXCEPT ![r].pc = "reads"]
               ELSE End(r, "crashed")
  /\ UNCHANGED <<processed, cmdOf>>
  /\ UNCHANGED <<giveVars, rpcVars, altVars>>

\* The summary's sendMessage settled (index.js:290-300).
ReplyDone(r) ==
  /\ srun[r].pc = "reply"
  /\ srun' = End(r, "replied")
  /\ UNCHANGED <<processed, cmdOf>>
  /\ UNCHANGED <<giveVars, rpcVars, altVars>>

\* The message that carries a /send command reaches the giveaway listener as
\* well: bot.on('message', handler) is called with every message of the chat,
\* and the listener takes the first @handle of its text (index.js:318-327,
\* 611-620).  `msg` records which message the run handles.  The command is
\* written by an account other than the giveaway's owner.
DeliverCommand(h, m) ==
  /\ session # "none"
  /\ attached
  /\ run[h].pc = "idle"
  /\ \A g \in Runs : g < h => run[g].pc # "idle"
  /\ cmdOf[m] # NoCmd
  /\ \A g \in Runs : run[g].msg # m
  /\ LET tag == cmdOf[m].recipients[1]
     IN  IF DroppedAtGate(TRUE, "u1", tag, claimed, claimedUsers, maxPeople)
         THEN run' = [run EXCEPT ![h] = [DroppedRun EXCEPT !.msg = m]]
         ELSE run' = [run EXCEPT ![h].pc = "lookup", ![h].from = "u1", ![h].tag = tag,
                                 ![h].msg = m]
  /\ UNCHANGED <<session, maxPeople, claimed, claimedUsers, closedBy, ledger>>
  /\ UNCHANGED <<rpcVars, altVars, sendVars>>

NoFunds == [c \in Chains |-> [bal |-> 0, allow |-> 0]]
NoProbe == [amount |-> 0, exclude |-> "", down |-> [c \in Chains |-> 0],
            called |-> FALSE, checks |-> <<>>, result |-> NullAlt]

\* The giveaway variables before any /giveaway command.
InitGive ==
  /\ session = "none"
  /\ maxPeople = 0
  /\ claimed = 0
  /\ claimedUsers = {}
  /\ closedBy = {}
  /\ run = [h \in Runs |-> IdleRun]
  /\ ledger = {}

\* index.js:54, with the environment's two optional URLs either set or not.
InitRpc ==
  /\ rpcEnv \in [base : BOOLEAN, tempo : BOOLEAN]
  /\ rpcIndexes = [c \in Chains |-> 0]
  /\ rpcUsed = [c \in Chains |-> -1]
  /\ rpcCall = [op |-> "none", chain |-> ""]

RpcIdle ==
  /\ rpcEnv = [base |-> TRUE, tempo |-> TRUE]
  /\ rpcIndexes = [c \in Chains |-> 0]
  /\ rpcUsed = [c \in Chains |-> -1]
  /\ rpcCall = [op |-> "none", chain |-> ""]

AltIdle == funds = NoFunds /\ probe = NoProbe

\* The values a balance or an allowance on chain c is drawn from.
UnitChoices(c) == 0..(MaxAmount * UnitsPerStep(c))

\* The balance/allowance pairs chain c is drawn from for a given amount.
FundChoices(c, amount) ==
  [bal : UnitChoices(c),
   allow : {0, ParseUnitsToFixed(amount, c) - 1, ParseUnitsToFixed(amount, c)}]

\* The arguments of one findAlternateChain call and the chain state it meets.
InitAlt ==
  \E amount \in 1..MaxAmount, exclude \in Chains :
  \E fb \in FundChoices("base", amount), fs \in FundChoices("bsc", amount),
     ft \in FundChoices("tempo", amount) :
  \E db \in DownChoices("base"), ds \in DownChoices("bsc"), dt \in DownChoices("tempo") :
    /\ funds = [c \in Chains |-> IF c = "base" THEN fb ELSE IF c = "bsc" THEN fs ELSE ft]
    /\ probe = [NoProbe EXCEPT !.amount = amount, !.exclude = exclude,
                  !.down = [c \in Chains |-> IF c = "base" THEN db
                                             ELSE IF c = "bsc" THEN ds ELSE dt]]

SendIdle ==
  /\ processed = {}
  /\ cmdOf = [m \in MsgIds |-> NoCmd]
  /\ srun = [r \in SendRuns |-> OffRun]

Init == InitGive /\ RpcIdle /\ AltIdle /\ SendIdle

\* The recipient lists of up to n handles.
RecipientLists(n) == UNION {[1..k -> SendTags] : k \in 1..n}

\* The balance/allowance pairs a /send meets on chain c: nothing, balance
\* without allowance, both, and a balance one unit short.
SendFundChoices(c, amount) ==
  LET au == ParseUnitsToFixed(amount, c)
  IN  {[bal |-> 0, allow |-> 0], [bal |-> au, allow |-> 0],
       [bal |-> au, allow |-> au], [bal |-> au - 1, allow |-> au]}

\* One update, any command, any chain state.
InitOneSend ==
  \E amount \in {1, MaxAmount}, chain \in Chains, tags \in RecipientLists(MaxRecipients) :
  \E fb \in SendFundChoices("base", amount), fs \in SendFundChoices("bsc", amount),
     ft \in SendFundChoices("tempo", amount) :
    /\ processed = {}
    /\ cmdOf = [m \in MsgIds |-> IF m = "m1"
                  THEN [recipients |-> tags, chain |-> chain, amount |-> amount]
                  ELSE NoCmd]
    /\ srun = [r \in SendRuns |-> IF r = 1 THEN NewRun("m1") ELSE OffRun]
    /\ funds = [c \in Chains |-> IF c = "base" THEN fb ELSE IF c = "bsc" THEN fs ELSE ft]
    /\ probe = NoProbe

\* One update whose command names a chain CHAINS lacks: executeP2PCommand is
\* handed `aiResult.chain`, any string (index.js:455).
InitForeignChainSend ==
  \E tags \in RecipientLists(MaxRecipients) :
    /\ processed = {}
    /\ cmdOf = [m \in MsgIds |-> IF m = "m1"
                  THEN [recipients |-> tags, chain |-> "solana", amount |-> 1]
                  ELSE NoCmd]
    /\ srun = [r \in SendRuns |-> IF r = 1 THEN NewRun("m1") ELSE OffRun]
    /\ funds = NoFunds
    /\ probe = NoProbe

\* The commands of the redelivery scenarios: @alice paid once from a funded
\* chain, once from an empty chain with funds elsewhere, or named twice.
RedeliveryChoices ==
  {[tags |-> <<"alice">>, baseFunded |-> TRUE],
   [tags |-> <<"alice">>, baseFunded |-> FALSE],
   [tags |-> <<"alice", "alice">>, baseFunded |-> TRUE]}

\* Several updates, among them the same message delivered again.
InitManySends ==
  \E ms \in [SendRuns -> MsgIds], k \in RedeliveryChoices :
    /\ ms[1] = "m1"
    /\ processed = {}
    /\ cmdOf = [m \in MsgIds |-> [recipients |-> IF m = "m1" THEN k.tags ELSE <<"alice">>,
                                   chain |-> "base", amount |-> MaxAmount]]
    /\ srun = [r \in SendRuns |-> NewRun(ms[r])]
    /\ funds = [c \in Chains |->
                  IF c = "tempo" \/ (c = "base" /\ ~k.baseFunded)
                  THEN [bal |-> 0, allow |-> 0]
                  ELSE [bal |-> ParseUnitsToFixed(MaxAmount, c),
                        allow |-> ParseUnitsToFixed(MaxAmount, c)]]
    /\ probe = NoProbe

InitSend == InitOneSend \/ InitForeignChainSend \/ InitManySends


\* Every step of a session but the one that follows the reads.
NextGiveawayOther ==
  \/ StartGiveaway
  \/ Expire
  \/ \E h \in Runs : Deliver(h)
  \/ \E h \in Runs : LookupDone(h)
  \/ \E h \in Runs : NotifyEndDone(h)
  \/ \E h \in Runs : EstimateDone(h)
  \/ \E h \in Runs : SendDone(h)
  \/ \E h \in Runs : ConfirmDone(h)
  \/ \E h \in Runs : NotifyRevertDone(h)
  \/ \E h \in Runs : LedgerDone(h)
  \/ \E h \in Runs : NotifyOkDone(h)
  \/ \E h \in Runs : NotifyCompleteDone(h)

\* The giveaway message arrives with its id unknown to processed_commands, or
\* already recorded there (the table outlives the process, and logCmd of the
\* /send handler records the id of a message both patterns match).
InitRecorded ==
  /\ InitGive /\ RpcIdle /\ AltIdle
  /\ processed = {GiveawayMsg}
  /\ cmdOf = [m \in MsgIds |-> NoCmd]
  /\ srun = [r \in SendRuns |-> OffRun]

InitGiveaway == Init \/ InitRecorded

NextGiveaway ==
  \/ NextGiveawayOther
  \/ \E h \in Runs : PreflightDone(h)

SpecGiveaway == InitGiveaway /\ [][NextGiveaway]_vars

\* The session with the dedup tag of every submitted claim on record.
NextGiveawayTags ==
  \/ NextGiveawayOther
  \/ \E h \in Runs : PreflightDoneTagged(h)

SpecGiveawayTags == Init /\ [][NextGiveawayTags]_vars

\* The session with its timer firing at any moment; setTimeout runs its
\* callback once the delay has passed, whatever the handlers do, and nothing
\* obliges an awaited call to settle.
NextGiveawayLive == NextGiveaway \/ ExpireInFlight

SpecGiveawayLive ==
  Init /\ [][NextGiveawayLive]_vars /\ WF_vars(Expire \/ ExpireInFlight)

NextRpc ==
  \/ \E name \in Chains \cup {"solana"} : RotateRpc(name)
  \/ \E c \in Chains : GetClients(c)

\* Only the endpoint cursor moves.
InitRpcOnly == InitGive /\ InitRpc /\ AltIdle /\ SendIdle

SpecRpc == InitRpcOnly /\ [][NextRpc]_vars

NextAlt == CallFindAlternateChain

NextSend ==
  \/ \E r \in SendRuns : OnSend(r)
  \/ \E r \in SendRuns : IsProcessedDone(r)
  \/ \E r \in SendRuns : GetSenderDone(r)
  \/ \E r \in SendRuns : LogCmdDone(r)
  \/ \E r \in SendRuns : RecipientLookupDone(r)
  \/ \E r \in SendRuns : ReadsDone(r)
  \/ \E r \in SendRuns : GasEstimateDone(r)
  \/ \E r \in SendRuns : AltDone(r)
  \/ \E r \in SendRuns : RerouteDone(r)
  \/ \E r \in SendRuns : ReplyDone(r)

\* Only /send updates arrive.
InitSendOnly == InitGive /\ RpcIdle /\ InitSend

SpecSend == InitSendOnly /\ [][NextSend]_vars

\* One chat with a giveaway and a /send command for @alice: the command's
\* chain holds the funds or another chain does.
InitChat ==
  \E baseFunded \in BOOLEAN :
    /\ InitGive /\ RpcIdle
    /\ processed = {}
    /\ cmdOf = [m \in MsgIds |-> IF m = "m2"
                  THEN [recipients |-> <<"alice">>, chain |-> "base", amount |-> 1]
                  ELSE NoCmd]
    /\ srun = [r \in SendRuns |-> IF r = 1 THEN NewRun("m2") ELSE OffRun]
    /\ funds = [c \in Chains |->
                  IF c = "tempo" \/ (c = "base" /\ ~baseFunded)
                  THEN [bal |-> 0, allow |-> 0]
                  ELSE [bal |-> ParseUnitsToFixed(1, c), allow |-> ParseUnitsToFixed(1, c)]]
    /\ probe = NoProbe

NextChat ==
  \/ NextGiveaway
  \/ NextSend
  \/ \E h \in Runs, m \in MsgIds : DeliverCommand(h, m)

SpecChat == InitChat /\ [][NextChat]_vars

\* Only findAlternateChain is called.
InitAltOnly == InitGive /\ RpcIdle /\ InitAlt /\ SendIdle

SpecAlt == InitAltOnly /\ [][NextAlt]_vars

(***************************************************************************)
(* Claims about the giveaway listener, checked under SpecGiveaway.         *)
(***************************************************************************)
\* Runs between the nonce read and the receipt (index.js:336-353, 629-646).
InDispatch(h) == run[h].pc \in {"preflight", "estimate", "send", "confirm"}
PaidRuns == {h \in Runs : run[h].paid}
AdmittedRuns == {h \in Runs : run[h].adm}

\* C1: the admitted count never exceeds maxPeople, and no more than maxPeople
\* runs hold an admission, whatever the interleaving of the claim events.
C1_AdmittedWithinMax ==
  /\ claimed <= maxPeople
  /\ Cardinality(AdmittedRuns) <= maxPeople

\* C2: no claimant identity holds two admissions (admitted or paid) at once.
C2_NoIdentityAdmittedTwice ==
  \A h1, h2 \in Runs :
    (h1 # h2 /\ (run[h1].adm \/ run[h1].paid) /\ (run[h2].adm \/ run[h2].paid))
      => run[h1].from # run[h2].from

\* The step of run h in which its settlement fails: a rejected read, estimate,
\* send or receipt wait, or a receipt with status 'reverted'.
SettlementFails(h) ==
  /\ InDispatch(h)
  /\ \/ run'[h].pc = "notifyRevert"
     \/ run'[h].pc = "done" /\ run'[h].out = "failed"

C4_CompleteMeansMaxPaid ==
  ("cap" \in closedBy /\ Quiescent) => Cardinality(PaidRuns) = maxPeople

\* C6: at most one dispatch (nonce read through receipt) of the giveaway's
\* sender is outstanding on the giveaway's chain.
C6_OneOutstandingDispatch ==
  Cardinality({h \in Runs : InDispatch(h)}) <= 1


(***************************************************************************)
(* Direct sends.                                                           *)
(***************************************************************************)
\* The attempts that have returned: <<run, position, result>>.
Returned ==
  {<<r, i>> : r \in SendRuns, i \in 1..MaxRecipients} \cap
  UNION {{<<r, i>> : i \in DOMAIN srun[r].results} : r \in SendRuns}
ResultOf(a) == srun[a[1]].results[a[2]]
SuccessRows == {x \in ledger : x.type = "p2p"}

SufficientOn(c, amount) ==
  /\ funds[c].bal >= ParseUnitsToFixed(amount, c)
  /\ funds[c].allow >= ParseUnitsToFixed(amount, c)

\* C7: an attempt whose amount is within the sender's balance and allowance
\* on the chosen chain, and that met no transport error, returns Success.
C7_SufficientFundsSucceed ==
  \A a \in Returned :
    LET e == ResultOf(a)
    IN  (/\ e.chain \in Chains
         /\ e.reason # "transport"
         /\ SufficientOn(e.chain, cmdOf[srun[a[1]].msg].amount)) => e.ok

\* What the reads of run r led to: the reason returned, or "proceeding" when
\* the attempt went on to the gas estimate.
ReadsOutcome(r) ==
  IF srun[r].pc = "estimate" THEN "proceeding"
  ELSE IF srun[r].pc = "alt" THEN srun[r].first
  ELSE IF srun[r].results # <<>> THEN srun[r].results[Len(srun[r].results)].reason
  ELSE "none"

\* C8: when the reads answer and the amount exceeds the balance, the attempt
\* returns "Low balance" ("Low allowance" when the balance suffices and the
\* allowance does not); it does not go on to the gas estimate and no ledger
\* row is written.
C8_InsufficientFundsStopBeforeDispatch ==
  [][\A r \in SendRuns :
       (srun[r].pc = "reads" /\ srun'[r] # srun[r] /\ ReadsOutcome(r)' # "transport") =>
         LET c == srun[r].chain
             amountUnits == ParseUnitsToFixed(Cmd(r).amount, c)
         IN  /\ funds[c].bal < amountUnits =>
                  (ReadsOutcome(r)' = "Low balance" /\ ledger' = ledger)
             /\ (funds[c].bal >= amountUnits /\ funds[c].allow < amountUnits) =>
                  (ReadsOutcome(r)' = "Low allowance" /\ ledger' = ledger)]_vars

\* An attempt has returned "Low balance" on a chain where the allowance would
\* have sufficed, and nothing was written to the ledger.
C8_Witness ==
  /\ ledger = {}
  /\ \E a \in Returned :
       LET e == ResultOf(a)
       IN  /\ e.reason = "Low balance"
           /\ e.chain \in Chains
           /\ funds[e.chain].bal < ParseUnitsToFixed(cmdOf[srun[a[1]].msg].amount, e.chain)
           /\ funds[e.chain].allow >= ParseUnitsToFixed(cmdOf[srun[a[1]].msg].amount, e.chain)

(***************************************************************************)
(* The endpoint cursor.                                                    *)
(***************************************************************************)
\* C9: rpcIndexes[chain] never decreases and is never reset, and the index
\* getClients uses to pick an endpoint is never above the last position of
\* the chain's endpoint list (nor below the first).
C9_CursorMonotoneInRange ==
  [][\A c \in Chains :
       /\ rpcIndexes'[c] >= rpcIndexes[c]
       /\ rpcUsed'[c] <= Len(Rpcs(c, rpcEnv)) - 1
       /\ rpcIndexes'[c] <= Len(Rpcs(c, rpcEnv)) - 1]_vars

\* A chain with several endpoints has been rotated to its last one and
\* getClients has picked that one.
C9_Witness ==
  \E c \in Chains :
    /\ Len(Rpcs(c, rpcEnv)) > 1
    /\ rpcIndexes[c] = Len(Rpcs(c, rpcEnv)) - 1
    /\ rpcUsed[c] = rpcIndexes[c]

(***************************************************************************)
(* The rerouter.                                                           *)
(***************************************************************************)
Answers(c) == probe.down[c] < Len(CheckRpcs(c))
OtherChains == Chains \ {probe.exclude}
WithBoth == {c \in OtherChains : SufficientOn(c, probe.amount)}
WithBalance ==
  {c \in OtherChains : funds[c].bal >= ParseUnitsToFixed(probe.amount, c)}

\* C10: findAlternateChain(sender, amount, A), every other chain answering:
\* if some chain B # A has balance and allowance of at least the amount, the
\* result is such a chain, without needsAllowance; otherwise, if some B # A
\* has balance of at least the amount, the result is such a chain with
\* needsAllowance; otherwise the result is null.  The result is never A.
C10_AlternateChainContract ==
  (probe.called /\ \A c \in OtherChains : Answers(c)) =>
    /\ probe.result.chain # probe.exclude
    /\ WithBoth # {} =>
         (probe.result.chain \in WithBoth /\ ~probe.result.needsAllowance)
    /\ (WithBoth = {} /\ WithBalance # {}) =>
         (probe.result.chain \in WithBalance /\ probe.result.needsAllowance)
    /\ WithBalance = {} => probe.result = NullAlt


(***************************************************************************)
(* Later claims on the endpoint cursor.                                    *)
(***************************************************************************)
LastIdx(c) == Len(Rpcs(c, rpcEnv)) - 1

\* C11: a call rotateRpc(chain) moves that chain's cursor on by exactly one
\* when it is below the last endpoint, changes nothing when it is at the last
\* endpoint, and never changes the cursor of another chain.
C11_RotateFrame ==
  [][rpcCall'.op = "rotateRpc" =>
       LET c == rpcCall'.chain
       IN  /\ (c \in Chains /\ rpcIndexes[c] < LastIdx(c)) =>
                rpcIndexes'[c] = rpcIndexes[c] + 1
           /\ (c \in Chains /\ rpcIndexes[c] >= LastIdx(c)) =>
                rpcIndexes'[c] = rpcIndexes[c]
           /\ \A d \in Chains \ {c} : rpcIndexes'[d] = rpcIndexes[d]]_vars

\* rotateRpc("tempo") has just returned with tempo's only endpoint as the
\* last one (a no-op), after base was moved on by one and bsc never.
C11_Witness ==
  /\ rpcCall = [op |-> "rotateRpc", chain |-> "tempo"]
  /\ ~rpcEnv.tempo
  /\ rpcIndexes = [base |-> 1, bsc |-> 0, tempo |-> 0]


(***************************************************************************)
(* Later claims on the rerouter.                                           *)
(***************************************************************************)
\* C12: a chain whose every endpoint fails is reported with hasBalance and
\* hasAllowance false and is never the result; every alternate is still
\* probed, and a viable one among the others is returned without
\* needsAllowance.
C12_UnreachableFailsClosed ==
  probe.called =>
    /\ Len(probe.checks) = Len(Alternates(probe.exclude))
    /\ \A i \in DOMAIN probe.checks :
         LET k == probe.checks[i]
         IN  ~Answers(k.chain) =>
               /\ ~k.hasBalance /\ ~k.hasAllowance
               /\ probe.result.chain # k.chain
               /\ (\E j \in DOMAIN probe.checks : IsViable(probe.checks[j])) =>
                    (/\ ~probe.result.needsAllowance
                     /\ \E j \in DOMAIN probe.checks :
                          /\ IsViable(probe.checks[j])
                          /\ Answers(probe.checks[j].chain)
                          /\ probe.result.chain = probe.checks[j].chain)

\* The first alternate holds enough funds but none of its endpoints answers;
\* the call has returned the second one as viable.
C12_Witness ==
  /\ probe.called
  /\ Len(probe.checks) = 2
  /\ ~Answers(probe.checks[1].chain)
  /\ SufficientOn(probe.checks[1].chain, probe.amount)
  /\ probe.result.chain = probe.checks[2].chain
  /\ ~probe.result.needsAllowance


(***************************************************************************)
(* Later claims on direct sends.                                           *)
(***************************************************************************)
\* Run r is inside attemptP2POnChain, or about to enter it.
InAttempt(r) ==
  \/ srun[r].pc \in {"reads", "estimate"}
  \/ /\ srun[r].pc = "lookup"
     /\ ProfileByMonitag(Tag(r)) \notin {"null", SenderProfile}

\* C13: a step of an attempt (the reads, the gas estimate and what follows
\* it, or getClients on an unknown chain) never ends the handler: either the
\* attempt goes on, or its outcome is handed to the caller, and an outcome
\* that is pushed is a value with a reason, after which the loop stands at the
\* next recipient (or at the reply after the last one).
C13_AttemptNeverThrows ==
  [][\A r \in SendRuns :
       (InAttempt(r) /\ srun'[r] # srun[r]) =>
         \/ srun'[r].pc \in {"reads", "estimate", "alt"}
         \/ /\ Len(srun'[r].results) = Len(srun[r].results) + 1
            /\ LET e == srun'[r].results[Len(srun'[r].results)]
               IN  e.tag = Tag(r) /\ (e.ok \/ e.reason # "")
            /\ IF srun[r].i < Len(Cmd(r).recipients)
               THEN srun'[r].pc = "lookup" /\ srun'[r].i = srun[r].i + 1
               ELSE srun'[r].pc = "reply"]_vars

\* After a transport failure for the first recipient the loop went on: the
\* second recipient has its own outcome and the reply was sent.
C13_Witness ==
  \E r \in SendRuns :
    /\ srun[r].out = "replied"
    /\ Len(srun[r].results) = 2
    /\ srun[r].results[1].reason = "transport"
    /\ srun[r].results[2].reason = "hash is not defined"


(***************************************************************************)
(* Later claims on the giveaway session.                                   *)
(***************************************************************************)
\* C14: every row of the ledger belongs to a dispatch whose receipt was a
\* success: a giveaway row to a run that was paid, a direct-send row to a
\* successful result; a run that ended on insufficient funds, a revert or an
\* error has no row.
C14_LedgerOnlyOnSuccess ==
  /\ \A row \in ledger :
       /\ row.type = "giveaway" => run[row.run].paid
       /\ row.type # "giveaway" =>
            /\ Len(srun[row.run].results) >= row.idx
            /\ srun[row.run].results[row.idx].ok
  /\ \A h \in Runs :
       (~run[h].paid) => ~\E row \in ledger : row.type = "giveaway" /\ row.run = h

\* One claim was reverted or failed and left no row; another was paid and has
\* its row.
C14_Witness ==
  /\ \E h \in Runs :
       /\ run[h].out = "failed"
       /\ ~\E row \in ledger : row.run = h
  /\ \E row \in ledger : row.type = "giveaway" /\ run[row.run].paid


\* C15 (as stated): a giveaway command has a side effect (the announcement is
\* sent and the listener registered) only while its message id is not recorded.
\* Violated: bot.onText(/giveaway/) never calls isProcessed.
C15_GiveawayChecksProcessed ==
  GiveawayMsg \in processed => session = "none"


\* A preflight of the session has reported insufficient balance or allowance.
FundsShort == \E g \in Runs : run[g].pc = "notifyEnd" \/ run[g].out = "ended"

\* A step that admits a claimant, and a step that hands a claim's transaction
\* to the wallet.
AdmitStep == \E h \in Runs : run[h].pc = "lookup" /\ run'[h].pc = "preflight"
DispatchStep == \E h \in Runs : run[h].pc = "send" /\ run'[h].pc = "confirm"

\* C16 (as stated): once a preflight of the session has reported insufficient
\* funds, no step admits a claimant and no step dispatches a transfer.
\* Violated: the listener stays attached across the awaited notice, and the
\* handlers already suspended resume without looking at the closure.
C16_ShortfallEndsSession ==
  [][FundsShort => ~(AdmitStep \/ DispatchStep)]_vars


\* A reply enters the listener in this step.
DeliverStep == \E h \in Runs : run[h].pc = "idle" /\ run'[h].pc # "idle"

\* C17: the listener leaves the emitter once.  The first exit that calls
\* removeListener (expiry, cap or funds) takes it off; from then on no reply
\* enters the listener, the listener is never registered again, and an exit
\* that comes later finds nothing to remove and changes nothing else.
C17_DetachedOnce ==
  [][closedBy # {} =>
       /\ ~DeliverStep
       /\ ~attached'
       /\ closedBy' # closedBy =>
            UNCHANGED <<session, maxPeople, claimed, claimedUsers, ledger>>]_vars

\* The cap exit removed the listener, the timer fired afterwards, and a reply
\* that came after the cap was never handled.
C17_Witness ==
  /\ closedBy = {"cap", "expiry"}
  /\ \E h \in Runs : run[h].pc = "idle"
  /\ \E h \in Runs : run[h].out = "paid"


\* A step that starts a settlement: the reads of a claim are issued.
SettleStep == \E h \in Runs : run[h].pc # "preflight" /\ run'[h].pc = "preflight"

\* C18 (as stated): once the timer of the session has fired, no step admits a
\* claimant or starts a settlement.
\* Violated: the timer callback only removes the listener; a handler that is
\* suspended at the recipient lookup resumes and admits its claimant.
C18_NoAdmissionAfterDeadline ==
  [][("expiry" \in closedBy) => ~(AdmitStep \/ SettleStep)]_vars


\* C19 (as stated): the counter of admitted claims equals the number of
\* admitted identities.
\* Violated: two replies of one user that both pass the gate before either
\* lookup resolves are both counted, and a rollback can run twice for one
\* claim.
C19_CountEqualsIdentities ==
  claimed = Cardinality(claimedUsers)


\* C20: within one command the recipients are taken one at a time and in the
\* order of the list: while the handler works on recipient i (lookup, reads,
\* gas estimate, search for another chain, reroute and its retry) the outcomes
\* of recipients 1..i-1, and only those, are in `results`, in list order; the
\* reply is sent with one outcome per recipient.
C20_RecipientsInOrder ==
  \A r \in SendRuns :
    srun[r].pc \notin {"off", "new"} =>
      /\ Len(srun[r].results) <= Len(Cmd(r).recipients)
      /\ \A k \in 1..Len(srun[r].results) :
           srun[r].results[k].tag = Cmd(r).recipients[k]
      /\ srun[r].i >= 1 => Len(srun[r].results) = srun[r].i - 1
      /\ srun[r].pc = "reply" => Len(srun[r].results) = Len(Cmd(r).recipients)

\* The reads for the second recipient are under way, and the first recipient's
\* dispatch, rerouted to another chain, has already returned its outcome.
C20_Witness ==
  \E r \in SendRuns :
    /\ srun[r].pc = "reads"
    /\ srun[r].i = 2
    /\ Len(srun[r].results) = 1
    /\ srun[r].results[1].chain \in Chains \ {Cmd(r).chain}
    /\ srun[r].results[1].reason = "hash is not defined"


(***************************************************************************)
(* Failover, selection, reverts, rejections, dedup tags.                   *)
(***************************************************************************)
\* C21 (as stated): a transport failure reaches the user only after the
\* chain's cursor was advanced and the attempt retried on the next endpoint:
\* wherever a result says "transport" for a chain with a further endpoint,
\* that chain's cursor has left its first endpoint.
\* Violated: nothing calls rotateRpc; the catch block of attemptP2POnChain
\* returns the failure at once.
C21_TransportFailureRotates ==
  \A r \in SendRuns : \A k \in 1..Len(srun[r].results) :
    LET e == srun[r].results[k]
    IN  (e.reason = "transport" /\ LastIdx(e.chain) > 0) => rpcIndexes[e.chain] > 0


\* C22: the answer of findAlternateChain follows the priority of the policy
\* over the probes' verdicts, taken in registry order: the earliest chain
\* probed with balance and allowance if there is one (whatever stands before
\* it and whatever the balances are); otherwise the earliest probed with the
\* balance only, flagged needsAllowance; otherwise null.
C22_SelectionPriority ==
  probe.called =>
    LET checks == probe.checks
        V == {i \in DOMAIN checks : IsViable(checks[i])}
        B == {i \in DOMAIN checks : IsBalanceOnly(checks[i])}
    IN  /\ V # {} =>
             \E i \in V :
               /\ \A j \in V : i <= j
               /\ probe.result = [chain |-> checks[i].chain,
                                  balance |-> checks[i].balance,
                                  needsAllowance |-> FALSE]
        /\ (V = {} /\ B # {}) =>
             \E i \in B :
               /\ \A j \in B : i <= j
               /\ probe.result = [chain |-> checks[i].chain,
                                  balance |-> checks[i].balance,
                                  needsAllowance |-> TRUE]
        /\ (V = {} /\ B = {}) => probe.result = NullAlt

\* The first alternate was probed with the balance only and the larger
\* balance, the second with balance and allowance: the second is the answer.
C22_Witness ==
  /\ probe.called /\ Len(probe.checks) = 2
  /\ IsBalanceOnly(probe.checks[1])
  /\ IsViable(probe.checks[2])
  /\ probe.checks[1].balance > probe.checks[2].balance
  /\ probe.result.chain = probe.checks[2].chain
  /\ ~probe.result.needsAllowance


\* C23: a claim whose receipt was not a success is over: the step that learns
\* of it leaves the handler at the notice of the revert or at its end, from
\* there the handler only ends, an ended handler never moves again, and no
\* step of the session calls findAlternateChain.
C23_RevertIsTerminal ==
  [][/\ \A h \in Runs :
          /\ (run[h].pc = "confirm" /\ run'[h] # run[h] /\ ~run'[h].paid) =>
               run'[h].pc \in {"notifyRevert", "done"}
          /\ run[h].pc = "notifyRevert" => run'[h].pc \in {"notifyRevert", "done"}
          /\ run[h].pc = "done" => run'[h].pc = "done"
     /\ probe' = probe]_vars

\* A claim was reverted, its notice went out, and it ended unpaid and without
\* a ledger row.
C23_Witness ==
  \E h \in Runs :
    /\ run[h].pc = "notifyRevert"
    /\ ~run[h].paid /\ ~run[h].adm
    /\ run[h].from \notin claimedUsers


\* C24 (as stated): a step admits a claim only if its claimant is not already
\* in the admitted set, is not the account that started the giveaway, and
\* named a handle that resolves to a profile.
\* Violated: the admitted set is read before the awaited lookup and written
\* after it, and the owner test compares the named recipient, not the
\* claimant, with the sender.
C24_RejectedNeverAdmitted ==
  [][\A h \in Runs :
       (run[h].pc = "lookup" /\ run'[h].pc = "preflight") =>
         /\ run[h].from \notin claimedUsers
         /\ run[h].from # "owner"
         /\ ProfileByMonitag(run[h].tag) # "null"]_vars


\* C25 (as stated): two claims of one session whose transactions are both
\* handed to the wallet and not yet confirmed carry different dedup tags.
\* Violated: the tag ends in `claimed`, read after the awaited reads, when
\* both claims have already been counted.
C25_DedupTagsDiffer ==
  \A g, h \in Runs :
    (g # h /\ run[g].pc \in {"send", "confirm"} /\ run[h].pc \in {"send", "confirm"}) =>
      run[g].dedup # run[h].dedup


\* C26: once a session exists, its listener is eventually off the emitter,
\* whatever state the session is in when the timer's delay has passed.
C26_EventuallyDetached ==
  (session # "none") ~> ~attached

\* The timer took the listener off while every delivered claim was still in
\* flight, one of them awaiting its receipt.
C26_Witness ==
  /\ closedBy = {"expiry"}
  /\ \A h \in Runs : run[h].pc \notin {"idle", "done"}
  /\ \E h \in Runs : run[h].pc = "confirm"


\* C27 (as stated): a command whose loop was entered ends with one result per
\* recipient of its list.
\* Violated: the reroute notice is awaited inside the loop and outside any
\* try block; when it is rejected the handler ends with the results collected
\* so far and sends no summary.
C27_OneResultPerRecipient ==
  \A r \in SendRuns :
    (srun[r].pc = "done" /\ srun[r].out \notin {"duplicate", "notLinked"}) =>
      Len(srun[r].results) = Len(Cmd(r).recipients)


\* C28: a recipient gets one attempt on the command's chain and at most one
\* more.  The search for another chain starts only from the first attempt and
\* only on a short balance or allowance; the second attempt starts only from
\* that search, on a chain of the registry other than the command's; and once
\* the second attempt is under way the handler neither searches nor reroutes
\* again for that recipient, whatever the attempt returns.
C28_AtMostTwoAttempts ==
  [][\A r \in SendRuns :
       /\ (srun'[r].pc = "alt" /\ srun[r].pc # "alt") =>
            /\ srun[r].pc = "reads" /\ ~srun[r].retry
            /\ srun[r].chain = Cmd(r).chain
            /\ srun'[r].first \in {"Low balance", "Low allowance"}
       /\ (srun'[r].pc = "reroute" /\ srun[r].pc # "reroute") =>
            /\ srun[r].pc = "alt" /\ ~srun[r].retry
            /\ srun'[r].chain \in Chains \ {Cmd(r).chain}
            /\ srun'[r].i = srun[r].i
       /\ srun[r].retry =>
            /\ srun'[r].pc \notin {"alt", "reroute"} \/ srun[r].pc = "reroute"
            /\ srun'[r].retry => (srun'[r].i = srun[r].i /\ srun'[r].chain = srun[r].chain)]_vars

\* The second attempt, on the alternate chain, came back with a short balance
\* and was pushed as the recipient's outcome.
C28_Witness ==
  \E r \in SendRuns :
    /\ Len(srun[r].results) >= 1
    /\ srun[r].results[1].reason = "Low balance"
    /\ srun[r].results[1].chain \in Chains \ {Cmd(r).chain}


\* C29 (as stated): two paid claims of one session never name the same
\* recipient profile.
\* Violated: the admitted set holds the claimants' accounts, not the
\* recipients; two accounts naming one handle are both paid.
C29_RecipientPaidOnce ==
  \A g, h \in Runs :
    (g # h /\ run[g].paid /\ run[h].paid) =>
      ProfileByMonitag(run[g].tag) # ProfileByMonitag(run[h].tag)


\* C30 (as stated): a message that the /send handler took up as a payment is
\* not admitted as a claim by the giveaway of the same chat.
\* Violated: the listener is called with every message of the chat and finds
\* a handle in the text of the command.
C30_OneMessageOnePipeline ==
  \A h \in Runs : \A r \in SendRuns :
    (run[h].adm /\ run[h].msg # "" /\ srun[r].msg = run[h].msg) =>
      srun[r].pc \in {"new", "isProcessed", "getSender", "logCmd"}
        \/ srun[r].out \in {"duplicate", "notLinked"}


(***************************************************************************)
(* The two entry points, and the counter's sign.                           *)
(***************************************************************************)
\* C31 (as stated): the two entry points leave the same ledger records: a
\* claim that was paid and whose handler returned has its row in
\* monibot_transactions, as it has in a session started by handleGiveawayTg,
\* whichever entry point started the session.
\* Violated: the listener of bot.onText(/giveaway/) has no insert.
C31_EntryPointsAgree ==
  \A h \in Runs :
    run[h].out = "paid" =>
      \E row \in ledger : row.type = "giveaway" /\ row.run = h

\* C32 (as stated): the counter of admitted claims is never negative.
\* Violated: after a reverted receipt the handler decrements and then awaits
\* the notice inside the try block; a rejected notice runs the catch block,
\* which decrements again.
C32_ClaimedNeverNegative ==
  claimed >= 0

====
